---- MODULE Spec2Model ----
(***************************************************************************)
(* Model of the Go tool handlers of mcp-golang (src/tools/goTools.ts):     *)
(* working-directory validation, executeGoCommand (synchronous attempt     *)
(* with asynchronous fallback), executeSequentialGoCommands and the tool   *)
(* handlers registered by registerGoTools.                                 *)
(*                                                                         *)
(* A JavaScript string is modelled as a sequence of tokens (a working      *)
(* directory as a sequence of characters), so that the empty string is     *)
(* <<>>, string concatenation is \o and `a || b` on strings is Or(a, b).   *)
(***************************************************************************)
EXTENDS Integers, Sequences, FiniteSets, TLC

\* Number of tool calls the hosting runtime may have in flight.
NumCalls == 2

Calls == 1..NumCalls

(***************************************************************************)
(* String helpers                                                          *)
(***************************************************************************)

\* JavaScript `a || b` on strings: the empty string is falsy.
Or(a, b) == IF a # <<>> THEN a ELSE b

\* s.startsWith(p)
StartsWith(s, p) == Len(s) >= Len(p) /\ SubSeq(s, 1, Len(p)) = p

Letters == {"a", "b", "c", "d", "p", "r", "s", "t", "x", "C", "D", "P", "S"}

BSlash == "\\"

(***************************************************************************)
(* Path validation                                                         *)
(***************************************************************************)

\* A variant that accepts every path with a slash in it, wherever it is.
isAbsolutePathAnySlash(path) ==
  \E i \in 1..Len(path) : path[i] \in {"/", BSlash}

\* A variant that knows the drive-letter prefix and the forward slash only.
isAbsolutePathNoBackslash(path) ==
  \/ (Len(path) >= 2 /\ path[1] \in Letters /\ path[2] = ":")
  \/ StartsWith(path, <<"/">>)

\* A variant that counts the slashes, as an earlier revision of the
\* validator did: (path.match(/[/\\]/g) || []).length > 2
isAbsolutePathSlashCount(path) ==
  Cardinality({i \in 1..Len(path) : path[i] \in {"/", BSlash}}) > 2

\* /^[a-zA-Z]:/.test(path) || path.startsWith('/') || path.startsWith('\\')
isAbsolutePath(path) ==
  \/ (Len(path) >= 2 /\ path[1] \in Letters /\ path[2] = ":")
  \/ StartsWith(path, <<"/">>)
  \/ StartsWith(path, <<BSlash>>)

NotAbsoluteText == <<"\" is not an absolute path. Please provide a valid absolute path.">>

\* The result a handler returns for a rejected working directory.
createWdError(wd) ==
  [raised  |-> FALSE,
   text    |-> <<"Error: Working directory \"">> \o wd \o NotAbsoluteText,
   isError |-> "true"]

(***************************************************************************)
(* Inputs                                                                  *)
(***************************************************************************)

\* process.platform
Platforms == {"win32", "linux"}

Tools == {"go_analyze", "go_fix", "go_test", "go_mod_tidy",
          "go_find_dead_code", "go_vet", "go_format", "go_lint"}

\* Working directories a caller may pass, as character sequences:
\* "", "rel/p", "a/b/c/d", "1:/x", "/s/P/x", "\s\P\x", "/d/P", "C:\t".
WorkingDirs ==
  { <<>>,
    <<"r", "e", "l", "/", "p">>,
    <<"a", "/", "b", "/", "c", "/", "d">>,
    <<"1", ":", "/", "x">>,
    <<"/", "s", "/", "P", "/", "x">>,
    <<BSlash, "s", BSlash, "P", BSlash, "x">>,
    <<"/", "d", "/", "P">>,
    <<"C", ":", BSlash, "t">> }

DefaultPath == <<"./...">>

\* The parameters of a tool call after the schema's defaults are applied.
\* config and bench are optional strings: <<>> stands for "not given".
DefaultArgs ==
  [path |-> DefaultPath, config |-> <<>>, fast |-> FALSE, fix |-> FALSE,
   severity |-> "warning", deps |-> TRUE, imports |-> TRUE, format |-> TRUE,
   extra |-> FALSE, coverage |-> FALSE, verbose |-> TRUE, race |-> FALSE,
   bench |-> <<>>, write |-> FALSE]

ArgsOf(tool) ==
  CASE tool = "go_analyze" ->
         { [DefaultArgs EXCEPT !.config = c, !.fast = f, !.fix = x, !.severity = s] :
             c \in {<<>>, <<"lint.yml">>}, f \in BOOLEAN, x \in BOOLEAN,
             s \in {"error", "warning", "info"} }
    [] tool = "go_fix" ->
         { [DefaultArgs EXCEPT !.deps = d, !.imports = i, !.format = f, !.extra = e] :
             d \in BOOLEAN, i \in BOOLEAN, f \in BOOLEAN, e \in BOOLEAN }
    [] tool = "go_test" ->
         { [DefaultArgs EXCEPT !.coverage = c, !.verbose = v, !.race = r, !.bench = b] :
             c \in BOOLEAN, v \in BOOLEAN, r \in BOOLEAN, b \in {<<>>, <<"Fn">>} }
    [] tool = "go_format" ->
         { [DefaultArgs EXCEPT !.write = w] : w \in BOOLEAN }
    [] OTHER -> { DefaultArgs }

(***************************************************************************)
(* Command construction by the tool handlers                               *)
(***************************************************************************)

CommandSpec(command, successMessage) ==
  [command |-> command, successMessage |-> successMessage]

\* A variant that writes --fix before --fast.
AnalyzeCommandFixBeforeFast(a) ==
  <<"golangci-lint run">>
    \o (IF a.config # <<>> THEN <<" --config=">> \o a.config ELSE <<>>)
    \o (IF a.fix THEN <<" --fix">> ELSE <<>>)
    \o (IF a.fast THEN <<" --fast">> ELSE <<>>)
    \o <<" --severity=", a.severity>>
    \o <<" --out-format=colored-line-number">>
    \o <<" ">> \o a.path

\* go_analyze: golangci-lint run [--config=] [--fast] [--fix] --severity= ...
AnalyzeCommand(a) ==
  <<"golangci-lint run">>
    \o (IF a.config # <<>> THEN <<" --config=">> \o a.config ELSE <<>>)
    \o (IF a.fast THEN <<" --fast">> ELSE <<>>)
    \o (IF a.fix THEN <<" --fix">> ELSE <<>>)
    \o <<" --severity=", a.severity>>
    \o <<" --out-format=colored-line-number">>
    \o <<" ">> \o a.path

\* A variant that always puts the dependency step first, whatever deps says.
FixCommandsAlwaysDeps(a) ==
  <<CommandSpec(<<"go mod tidy">>, <<"Dependencies cleaned up successfully">>)>>
    \o (IF a.imports
          THEN <<CommandSpec(<<"goimports -w ">> \o a.path,
                             <<"Imports organized successfully">>)>>
          ELSE <<>>)
    \o (IF a.format
          THEN <<CommandSpec(<<"gofumpt -w ">>
                               \o (IF a.extra THEN <<"-extra">> ELSE <<>>)
                               \o <<" ">> \o a.path,
                             <<"Code formatted successfully">>)>>
          ELSE <<>>)

\* go_fix: the enabled steps, in the order deps, imports, format.
FixCommands(a) ==
  (IF a.deps
     THEN <<CommandSpec(<<"go mod tidy">>, <<"Dependencies cleaned up successfully">>)>>
     ELSE <<>>)
    \o (IF a.imports
          THEN <<CommandSpec(<<"goimports -w ">> \o a.path,
                             <<"Imports organized successfully">>)>>
          ELSE <<>>)
    \o (IF a.format
          THEN <<CommandSpec(<<"gofumpt -w ">>
                               \o (IF a.extra THEN <<"-extra">> ELSE <<>>)
                               \o <<" ">> \o a.path,
                             <<"Code formatted successfully">>)>>
          ELSE <<>>)

\* A variant that does not ask go test for a coverage profile.
TestCommandNoCoverprofile(a) ==
  <<"go test">>
    \o (IF a.verbose THEN <<" -v">> ELSE <<>>)
    \o (IF a.race THEN <<" -race">> ELSE <<>>)
    \o (IF a.bench # <<>> THEN <<" -bench=">> \o a.bench \o <<" -run=^$">> ELSE <<>>)
    \o <<" ">> \o a.path

\* go_test: go test [-v] [-race] [-coverprofile=coverage.out] [-bench=.. -run=^$] path
TestCommand(a) ==
  <<"go test">>
    \o (IF a.verbose THEN <<" -v">> ELSE <<>>)
    \o (IF a.race THEN <<" -race">> ELSE <<>>)
    \o (IF a.coverage THEN <<" -coverprofile=coverage.out">> ELSE <<>>)
    \o (IF a.bench # <<>> THEN <<" -bench=">> \o a.bench \o <<" -run=^$">> ELSE <<>>)
    \o <<" ">> \o a.path

CoverCommand == <<"go tool cover -func=coverage.out">>

\* What a handler hands on once the working directory is accepted:
\* mode "single" returns executeGoCommand's promise, mode "seq" returns
\* executeSequentialGoCommands' promise.
Plan(tool, a) ==
  CASE tool = "go_analyze" ->
         [mode |-> "single", msg |-> <<>>,
          cmds |-> <<CommandSpec(AnalyzeCommand(a), <<"No issues found in the code">>)>>]
    [] tool = "go_fix" ->
         [mode |-> "seq", msg |-> <<"Code fixed successfully">>,
          cmds |-> FixCommands(a)]
    [] tool = "go_test" ->
         IF a.coverage
           THEN [mode |-> "seq", msg |-> <<"Tests completed successfully">>,
                 cmds |-> <<CommandSpec(TestCommand(a), <<"Tests passed with no output">>),
                            CommandSpec(CoverCommand, <<"No coverage information available">>)>>]
           ELSE [mode |-> "single", msg |-> <<>>,
                 cmds |-> <<CommandSpec(TestCommand(a), <<"Tests passed with no output">>)>>]
    [] tool = "go_mod_tidy" ->
         [mode |-> "single", msg |-> <<>>,
          cmds |-> <<CommandSpec(<<"go mod tidy">>, <<"Dependencies cleaned up successfully">>)>>]
    [] tool = "go_find_dead_code" ->
         [mode |-> "single", msg |-> <<>>,
          cmds |-> <<CommandSpec(<<"deadcode ">> \o a.path, <<"No dead code found">>)>>]
    [] tool = "go_vet" ->
         [mode |-> "single", msg |-> <<>>,
          cmds |-> <<CommandSpec(<<"go vet ">> \o a.path, <<"No issues found by go vet">>)>>]
    [] tool = "go_format" ->
         [mode |-> "single", msg |-> <<>>,
          cmds |-> <<CommandSpec(<<"go fmt ">> \o (IF a.write THEN <<"-w">> ELSE <<>>)
                                   \o <<" ">> \o a.path,
                                 <<"No formatting changes needed">>)>>]
    [] OTHER ->
         [mode |-> "single", msg |-> <<>>,
          cmds |-> <<CommandSpec(<<"golint ">> \o a.path, <<"No lint issues found">>)>>]

(***************************************************************************)
(* Subprocess outcomes and the errors the execution primitives raise       *)
(***************************************************************************)

Stdouts == {<<>>, <<"OUT">>}
Stderrs == {<<>>, <<"ERR">>}

\* What one execution attempt (execSync or the promisified exec) can meet:
\*   exit0     the process exits with status 0
\*   exit1     the process exits with a non-zero status
\*   spawnfail the process could not be spawned
\*   error     the primitive throws an Error that carries no captured output
\*   value     the primitive throws a value that is not an Error
Outcomes ==
  [type : {"exit0", "exit1"}, stdout : Stdouts, stderr : Stderrs, str : {<<>>}]
    \cup [type : {"spawnfail"}, stdout : {<<>>}, stderr : {<<>>}, str : {<<>>}]
    \cup [type : {"error"}, stdout : {<<>>}, stderr : {<<>>}, str : {<<"bad option">>}]
    \cup [type : {"value"}, stdout : {<<>>}, stderr : {<<>>}, str : {<<>>, <<"boom">>}]

Succeeds(o) == o.type = "exit0"

\* What execSync can meet. What a failed synchronous run printed reaches
\* the console only, so fewer of its failures are told apart.
SyncOutcomes ==
  { o \in Outcomes :
      \/ Succeeds(o)
      \/ o.type \in {"spawnfail", "error"}
      \/ o.type = "exit1" /\ ((o.stdout = <<>>) <=> (o.stderr = <<>>))
      \/ o.type = "value" /\ o.str # <<>> }

\* What the promisified exec can meet.
AsyncOutcomes == Outcomes

NoOutcome == [type |-> "none", stdout |-> <<>>, stderr |-> <<>>, str |-> <<>>]

\* The JavaScript value thrown for a failing outcome of running cmd:
\* isErr is `error instanceof Error`, hasStdout is `'stdout' in error`,
\* str is String(error).
ThrownError(o, cmd) ==
  CASE o.type = "exit1" ->
         LET m == <<"Command failed: ">> \o cmd
                    \o (IF o.stderr # <<>> THEN <<"\n">> \o o.stderr ELSE <<>>)
         IN [isErr |-> TRUE, hasStdout |-> TRUE, stdout |-> o.stdout,
             stderr |-> o.stderr, message |-> m, str |-> <<"Error: ">> \o m]
    [] o.type = "spawnfail" ->
         [isErr |-> TRUE, hasStdout |-> TRUE, stdout |-> <<>>, stderr |-> <<>>,
          message |-> <<"spawn ENOENT">>, str |-> <<"Error: ", "spawn ENOENT">>]
    [] o.type = "error" ->
         [isErr |-> TRUE, hasStdout |-> FALSE, stdout |-> <<>>, stderr |-> <<>>,
          message |-> o.str, str |-> <<"TypeError: ">> \o o.str]
    [] OTHER ->
         [isErr |-> FALSE, hasStdout |-> FALSE, stdout |-> <<>>, stderr |-> <<>>,
          message |-> <<>>, str |-> o.str]

(***************************************************************************)
(* executeGoCommand                                                        *)
(***************************************************************************)

\* A variant that leaves the forward slashes of the directory in place.
WindowsPathUnchanged(wd) == wd

\* workingDir.replace(/\//g, '\\')
WindowsPath(wd) == [i \in 1..Len(wd) |-> IF wd[i] = "/" THEN BSlash ELSE wd[i]]

\* The command line handed to both execution primitives.
FinalCommand(platform, command, workingDir) ==
  IF platform = "win32"
    THEN LET windowsPath == WindowsPath(workingDir)
         IN IF StartsWith(windowsPath, <<BSlash, "s", BSlash>>)
              THEN LET converted == <<"s", ":", BSlash>>
                                      \o SubSeq(windowsPath, 4, Len(windowsPath))
                       driveLetter == converted[1]
                   IN <<"cd /d ", driveLetter, ": && cd \"">> \o converted
                        \o <<"\" && ">> \o command
              ELSE <<"cd /d \"">> \o windowsPath \o <<"\" && ">> \o command
    ELSE command

NoCwd == <<"<no cwd option>">>

\* The cwd option passed to execSync and to execAsync.
CwdOption(platform, workingDir) ==
  IF platform = "win32" THEN NoCwd ELSE workingDir

Result(text) == [raised |-> FALSE, text |-> text, isError |-> "unset"]

ErrorResult(text) == [raised |-> FALSE, text |-> text, isError |-> "true"]

\* The executor lets the error escape instead of converting it.
Raised(error) == [raised |-> TRUE, error |-> error]

\* A variant that returns the raw output without the fallback message.
SyncSuccessNoFallback(o, successMessage) == Result(o.stdout)

\* execSync returned: text is `output || successMessage`, where output is
\* the captured stdout of the process.
SyncSuccess(o, successMessage) == Result(Or(o.stdout, successMessage))

\* A variant in which a fallback that succeeds still reports what the
\* synchronous attempt met: the result is flagged.
AsyncSuccessFlagged(o, successMessage) ==
  ErrorResult(Or(o.stdout, Or(o.stderr, successMessage)))

\* execAsync resolved: text is `stdout || stderr || successMessage`.
AsyncSuccess(o, successMessage) ==
  Result(Or(o.stdout, Or(o.stderr, successMessage)))

\* A variant that does not catch: the error escapes executeGoCommand.
ExecuteCatchRethrow(error) == Raised(error)

\* A variant without the 'Error running command' fallback text.
ExecuteCatchNoFallback(error) ==
  ErrorResult(IF error.isErr /\ error.hasStdout
                THEN Or(error.stdout, error.stderr)
                ELSE error.str)

\* A variant that forgets to flag the result as an error.
ExecuteCatchNoFlag(error) ==
  Result(Or(IF error.isErr /\ error.hasStdout
              THEN Or(error.stdout, error.stderr)
              ELSE error.str,
            <<"Error running command: ">>
              \o (IF error.isErr THEN error.message ELSE error.str)))

\* A variant that reports the message before the captured output.
ExecuteCatchMessageFirst(error) ==
  ErrorResult(<<"Error running command: ">>
                \o (IF error.isErr THEN error.message ELSE error.str))

\* The outer catch of executeGoCommand.
ExecuteCatch(error) ==
  LET errorOutput == IF error.isErr /\ error.hasStdout
                       THEN Or(error.stdout, error.stderr)
                       ELSE error.str
  IN ErrorResult(Or(errorOutput,
                    <<"Error running command: ">>
                      \o (IF error.isErr THEN error.message ELSE error.str)))

(***************************************************************************)
(* executeSequentialGoCommands                                             *)
(***************************************************************************)

\* '\n\n' + '---'.repeat(10) + '\n\n'
Delimiter == <<"\n\n------------------------------\n\n">>

\* `[${command}]:\n${outputText}`
Block(command, outputText) == <<"[">> \o command \o <<"]:\n">> \o outputText

\* `[${command}] ERROR:\n${errorMessage}`
ErrorBlock(command, error) ==
  <<"[">> \o command \o <<"] ERROR:\n">>
    \o <<"Error running command \"">> \o command \o <<"\": ">>
    \o (IF error.isErr THEN error.message ELSE error.str)

\* A variant that leaves the block of a failed step out of the output.
AppendStepOmitFailed(combinedOutput, command, res) ==
  IF res.raised \/ res.isError = "true"
    THEN combinedOutput
    ELSE (IF combinedOutput # <<>> THEN combinedOutput \o <<"\n\n------------------------------\n\n">> ELSE <<>>)
           \o <<"[">> \o command \o <<"]:\n">> \o res.text

\* A variant that puts the delimiter in front of every block, the first
\* included.
AppendStepLeadingDelimiter(combinedOutput, command, res) ==
  combinedOutput \o <<"\n\n------------------------------\n\n">>
    \o <<"[">> \o command \o <<"]:\n">> \o res.text

\* A variant that labels the block of every failed step with ERROR, whether
\* the executor raised or returned a flagged result.
AppendStepErrorLabelled(combinedOutput, command, res) ==
  (IF combinedOutput # <<>>
     THEN combinedOutput \o <<"\n\n------------------------------\n\n">>
     ELSE <<>>)
    \o (IF res.raised \/ res.isError = "true"
          THEN <<"[">> \o command \o <<"] ERROR:\n">>
                 \o (IF res.raised THEN <<"Error running command">> ELSE res.text)
          ELSE <<"[">> \o command \o <<"]:\n">> \o res.text)

\* One pass of the loop body after executeGoCommand settled with res.
AppendStep(combinedOutput, command, res) ==
  (IF combinedOutput # <<>> THEN combinedOutput \o Delimiter ELSE <<>>)
    \o (IF res.raised THEN ErrorBlock(command, res.error)
                      ELSE Block(command, res.text))

\* A variant in which a later successful step clears the flag.
StepFlagLastWins(hasError, res) == res.raised \/ res.isError = "true"

\* hasError after the step: set when the step's result is flagged or the
\* executor raised, never cleared.
StepFlag(hasError, res) == hasError \/ res.raised \/ res.isError = "true"

\* A variant that leaves isError out when no step failed.
SequenceReturnUnset(combinedOutput, hasError, combinedSuccessMessage) ==
  [raised  |-> FALSE,
   text    |-> Or(combinedOutput, combinedSuccessMessage),
   isError |-> IF hasError THEN "true" ELSE "unset"]

\* A variant that returns the combined message whenever no step failed.
SequenceReturnMessageWhenClean(combinedOutput, hasError, combinedSuccessMessage) ==
  [raised  |-> FALSE,
   text    |-> IF hasError THEN combinedOutput ELSE combinedSuccessMessage,
   isError |-> IF hasError THEN "true" ELSE "false"]

\* The value executeSequentialGoCommands returns: isError is the boolean
\* hasError, present in the object whatever its value.
SequenceReturn(combinedOutput, hasError, combinedSuccessMessage) ==
  [raised  |-> FALSE,
   text    |-> Or(combinedOutput, combinedSuccessMessage),
   isError |-> IF hasError THEN "true" ELSE "false"]

(***************************************************************************)
(* State                                                                   *)
(***************************************************************************)

VARIABLES
  platform,   \* process.platform of the server process
  call,       \* call[c]: the state of tool call c (its handler's locals,
              \* its position, and the record of what it ran)
  boot        \* main(): its position, what it logged and what it called

vars == <<platform, call, boot>>

NoResult == [raised |-> FALSE, text |-> <<>>, isError |-> "none"]

\* pc: "off"   the runtime never makes this call
\*     "idle"  not yet invoked
\*     "exec"  about to enter executeGoCommand for cmds[idx]
\*     "sync"  inside execSync, which blocks until the process has exited
\*     "await" suspended on `await execAsync(...)`
\*     "done"  the handler's promise resolved with result
\*     "threw" the handler's promise rejected
\* attempts: every invocation of execSync / execAsync made by the call,
\*     in order; alive is TRUE while the process has not exited.
\* steps: the settled outcome of every executeGoCommand invocation.
\* syncOut, asyncOut: what the two attempts of the latest executeGoCommand
\*     invocation met.
IdleCall ==
  [pc |-> "idle", tool |-> "none", wd |-> <<>>, args |-> DefaultArgs,
   mode |-> "none", msg |-> <<>>, cmds |-> <<>>, idx |-> 0,
   combinedOutput |-> <<>>, hasError |-> FALSE,
   attempts |-> <<>>, steps |-> <<>>,
   syncOut |-> NoOutcome, asyncOut |-> NoOutcome,
   result |-> NoResult]

OffCall == [IdleCall EXCEPT !.pc = "off"]

StartingMessage == <<"Starting mcp-golang v1.0.0...">>

StartedMessage == <<"mcp-golang server started successfully and ready to handle requests.">>

FailedMessage == "Failed to start server:"

NoError == "none"

\* main() before its first statement. log: the console.error calls made;
\* servers, tools, resources, prompts, transports, connects: the number of
\* calls of new McpServer, registerGoTools, server.resource, server.prompt,
\* new StdioServerTransport and server.connect; exitCode: the argument of
\* process.exit, <<>> while it was not called.
BootStart ==
  [pc |-> "start", error |-> NoError, log |-> <<>>,
   servers |-> 0, tools |-> 0, resources |-> 0, prompts |-> 0,
   transports |-> 0, connects |-> 0, exitCode |-> <<>>]

\* main() after a bootstrap in which nothing threw.
BootReady ==
  [pc |-> "ready", error |-> NoError, log |-> <<StartingMessage, StartedMessage>>,
   servers |-> 1, tools |-> 1, resources |-> 1, prompts |-> 1,
   transports |-> 1, connects |-> 1, exitCode |-> <<>>]

\* The server is up and one call is made.
Init ==
  /\ platform \in Platforms
  /\ call = [c \in Calls |-> IF c = 1 THEN IdleCall ELSE OffCall]
  /\ boot = BootReady

\* A variant in which the fallback is handed the caller's command instead of
\* the rewritten one.
AttemptAsyncOriginalCommand(kind, s, alive) ==
  [kind  |-> kind,
   step  |-> s.idx,
   cmd   |-> IF kind = "async" THEN s.cmds[s.idx].command
             ELSE FinalCommand(platform, s.cmds[s.idx].command, s.wd),
   cwd   |-> CwdOption(platform, s.wd),
   alive |-> alive]

\* An invocation of execSync or execAsync by the step the call is at.
Attempt(kind, s, alive) ==
  [kind  |-> kind,
   step  |-> s.idx,
   cmd   |-> FinalCommand(platform, s.cmds[s.idx].command, s.wd),
   cwd   |-> CwdOption(platform, s.wd),
   alive |-> alive]

\* A variant of the loop that stops at the first failed step.
SettleStopOnError(s, res) ==
  LET t == [s EXCEPT !.steps = Append(@, res)]
  IN IF s.mode = "single"
       THEN IF res.raised
              THEN [t EXCEPT !.pc = "threw"]
              ELSE [t EXCEPT !.pc = "done", !.result = res]
       ELSE LET out  == AppendStep(s.combinedOutput, s.cmds[s.idx].command, res)
                flag == StepFlag(s.hasError, res)
            IN IF s.idx = Len(s.cmds) \/ flag
                 THEN [t EXCEPT !.pc = "done", !.combinedOutput = out,
                                !.hasError = flag,
                                !.result = SequenceReturn(out, flag, s.msg)]
                 ELSE [t EXCEPT !.pc = "exec", !.idx = @ + 1,
                                !.combinedOutput = out, !.hasError = flag]

\* A variant in which the output buffer and the failure flag are kept
\* outside the function, one pair for all the calls (here: those of call 1).
SettleSharedBuffer(s, res) ==
  LET t == [s EXCEPT !.steps = Append(@, res)]
  IN IF s.mode = "single"
       THEN IF res.raised
              THEN [t EXCEPT !.pc = "threw"]
              ELSE [t EXCEPT !.pc = "done", !.result = res]
       ELSE LET out  == AppendStep(call[1].combinedOutput, s.cmds[s.idx].command, res)
                flag == StepFlag(call[1].hasError, res)
            IN IF s.idx = Len(s.cmds)
                 THEN [t EXCEPT !.pc = "done", !.combinedOutput = out,
                                !.hasError = flag,
                                !.result = SequenceReturn(out, flag, s.msg)]
                 ELSE [t EXCEPT !.pc = "exec", !.idx = @ + 1,
                                !.combinedOutput = out, !.hasError = flag]

\* executeGoCommand settled with res: what the caller does with it.
\* A single-command handler returns the promise itself (no await inside its
\* try), so a rejection would reject the handler's promise; the sequence
\* awaits inside try/catch, appends the step's block and goes on to the next
\* command, returning after the last one.
Settle(s, res) ==
  LET t == [s EXCEPT !.steps = Append(@, res)]
  IN IF s.mode = "single"
       THEN IF res.raised
              THEN [t EXCEPT !.pc = "threw"]
              ELSE [t EXCEPT !.pc = "done", !.result = res]
       ELSE LET out  == AppendStep(s.combinedOutput, s.cmds[s.idx].command, res)
                flag == StepFlag(s.hasError, res)
            IN IF s.idx = Len(s.cmds)
                 THEN [t EXCEPT !.pc = "done", !.combinedOutput = out,
                                !.hasError = flag,
                                !.result = SequenceReturn(out, flag, s.msg)]
                 ELSE [t EXCEPT !.pc = "exec", !.idx = @ + 1,
                                !.combinedOutput = out, !.hasError = flag]

(***************************************************************************)
(* Actions of the tool calls                                               *)
(*                                                                         *)
(* A call is cut where its code can be suspended (`await execAsync`, and   *)
(* the `await executeGoCommand` between two steps of a sequence) and at    *)
(* the entry and the return of execSync. execSync blocks the one thread of *)
(* the server process until the subprocess has exited: while a call is     *)
(* inside it no callback of any other call runs. An asynchronous run       *)
(* starts in ExecSyncThrows and ends in ExecAsyncResolves or               *)
(* ExecAsyncRejects.                                                       *)
(***************************************************************************)

\* No call is inside execSync: the event loop can run a callback.
EventLoopFree == \A d \in Calls : call[d].pc # "sync"

\* The runtime invokes a tool handler: validation of wd, then the command
\* (or command list) is built; an empty list makes the sequence return at
\* once. The tool, the directory and the arguments are drawn from the given
\* sets.
CallToolFrom(c, toolArgs, wds) ==
  /\ call[c].pc = "idle"
  /\ EventLoopFree
  /\ \E ta \in toolArgs, wd \in wds :
         LET tool == ta[1]
             a == ta[2]
             s == [call[c] EXCEPT !.tool = tool, !.wd = wd, !.args = a]
             plan == Plan(tool, a)
         IN call' = [call EXCEPT ![c] =
              IF ~isAbsolutePath(wd)
                THEN [s EXCEPT !.pc = "done", !.result = createWdError(wd)]
                ELSE IF plan.mode = "seq" /\ plan.cmds = <<>>
                       THEN [s EXCEPT !.pc = "done", !.mode = plan.mode,
                                      !.msg = plan.msg,
                                      !.result = SequenceReturn(<<>>, FALSE, plan.msg)]
                       ELSE [s EXCEPT !.pc = "exec", !.mode = plan.mode,
                                      !.msg = plan.msg, !.cmds = plan.cmds,
                                      !.idx = 1]]
  /\ UNCHANGED <<platform, boot>>

\* Every tool with every parameter record its schema admits.
ToolArgs == UNION { { <<tool, a>> : a \in ArgsOf(tool) } : tool \in Tools }

CallTool(c) == CallToolFrom(c, ToolArgs, WorkingDirs)

\* executeGoCommand is entered for cmds[idx]: the command line is built and
\* execSync starts its process.
ExecSyncStarts(c) ==
  /\ call[c].pc = "exec"
  /\ EventLoopFree
  /\ LET s == call[c]
     IN call' = [call EXCEPT ![c] =
          [s EXCEPT !.pc = "sync",
                    !.attempts = Append(@, Attempt("sync", s, TRUE))]]
  /\ UNCHANGED <<platform, boot>>

\* The attempts of s with the pending one marked as ended.
EndAttempt(s) ==
  [s EXCEPT !.attempts = [@ EXCEPT ![Len(@)] = [@ EXCEPT !.alive = FALSE]]]

\* The process of execSync exited with status 0: execSync returns its stdout.
ExecSyncReturnsWith(c, outcomes) ==
  /\ call[c].pc = "sync"
  /\ \E o \in outcomes :
       /\ Succeeds(o)
       /\ LET s == call[c]
              t == [EndAttempt(s) EXCEPT !.syncOut = o, !.asyncOut = NoOutcome]
          IN call' = [call EXCEPT ![c] =
                        Settle(t, SyncSuccess(o, s.cmds[s.idx].successMessage))]
  /\ UNCHANGED <<platform, boot>>

ExecSyncReturns(c) == ExecSyncReturnsWith(c, SyncOutcomes)

\* A variant in which a sequence does not wait for the fallback of a step
\* before it goes on to the next command.
ExecSyncThrowsNoAwait(c) ==
  /\ call[c].pc = "sync"
  /\ \E o \in SyncOutcomes :
       /\ ~Succeeds(o)
       /\ LET s == call[c]
              t == [EndAttempt(s) EXCEPT
                      !.attempts = Append(@, Attempt("async", s, TRUE)),
                      !.syncOut = o, !.asyncOut = NoOutcome]
          IN call' = [call EXCEPT ![c] =
               IF s.idx < Len(s.cmds)
                 THEN [t EXCEPT !.pc = "exec", !.idx = @ + 1]
                 ELSE [t EXCEPT !.pc = "await"]]
  /\ UNCHANGED <<platform, boot>>

\* execSync throws (the process could not be started or exited non-zero):
\* the same command is started again through execAsync and the call
\* suspends on its promise.
ExecSyncThrowsWith(c, outcomes) ==
  /\ call[c].pc = "sync"
  /\ \E o \in outcomes :
       /\ ~Succeeds(o)
       /\ LET s == call[c]
          IN call' = [call EXCEPT ![c] =
               [EndAttempt(s) EXCEPT
                  !.pc = "await",
                  !.attempts = Append(@, Attempt("async", s, TRUE)),
                  !.syncOut = o, !.asyncOut = NoOutcome]]
  /\ UNCHANGED <<platform, boot>>

ExecSyncThrows(c) == ExecSyncThrowsWith(c, SyncOutcomes)

\* The attempts of s with the pending asynchronous one marked as ended.
EndAsync(s) == EndAttempt(s)

\* The promise of execAsync resolves with { stdout, stderr }.
ExecAsyncResolvesWith(c, outcomes) ==
  /\ call[c].pc = "await"
  /\ EventLoopFree
  /\ \E o \in outcomes :
       /\ Succeeds(o)
       /\ LET s == call[c]
              t == [EndAsync(s) EXCEPT !.asyncOut = o]
          IN call' = [call EXCEPT ![c] =
                        Settle(t, AsyncSuccess(o, s.cmds[s.idx].successMessage))]
  /\ UNCHANGED <<platform, boot>>

ExecAsyncResolves(c) == ExecAsyncResolvesWith(c, AsyncOutcomes)

\* A variant that runs the command once more when the fallback failed.
ExecAsyncRejectsRetry(c) ==
  /\ call[c].pc = "await"
  /\ \E o \in AsyncOutcomes :
       /\ ~Succeeds(o)
       /\ LET s == call[c]
              t == [EndAsync(s) EXCEPT !.asyncOut = o]
          IN /\ Len(s.attempts) < 2 * s.idx + 1
             /\ call' = [call EXCEPT ![c] =
                  [t EXCEPT !.attempts = Append(@, Attempt("async", s, TRUE))]]
  /\ UNCHANGED <<platform, boot>>

\* The promise of execAsync rejects: the outer catch converts the error.
ExecAsyncRejectsWith(c, outcomes) ==
  /\ call[c].pc = "await"
  /\ EventLoopFree
  /\ \E o \in outcomes :
       /\ ~Succeeds(o)
       /\ LET s == call[c]
              t == [EndAsync(s) EXCEPT !.asyncOut = o]
              cmd == FinalCommand(platform, s.cmds[s.idx].command, s.wd)
          IN call' = [call EXCEPT ![c] =
                        Settle(t, ExecuteCatch(ThrownError(o, cmd)))]
  /\ UNCHANGED <<platform, boot>>

ExecAsyncRejects(c) == ExecAsyncRejectsWith(c, AsyncOutcomes)

Next ==
  \E c \in Calls :
    \/ CallTool(c)
    \/ ExecSyncStarts(c)
    \/ ExecSyncReturns(c)
    \/ ExecSyncThrows(c)
    \/ ExecAsyncResolves(c)
    \/ ExecAsyncRejects(c)

Spec == Init /\ [][Next]_vars

(***************************************************************************)
(* Calls in flight together                                                *)
(*                                                                         *)
(* Every call the runtime can make is made, over a small choice of tools,  *)
(* directories and process outcomes: a single-command tool and a sequence  *)
(* of two commands, an accepted and a rejected directory, a process that   *)
(* succeeds and one that fails for each execution primitive.               *)
(***************************************************************************)

SomeTools == {"go_vet", "go_test"}

SomeWorkingDirs == { <<"/", "d", "/", "P">>, <<"r", "e", "l", "/", "p">> }

SomeArgsOf(tool) ==
  IF tool = "go_test"
    THEN { [DefaultArgs EXCEPT !.coverage = TRUE] }
    ELSE { DefaultArgs }

SomeSyncOutcomes ==
  { [type |-> "exit0", stdout |-> <<"OUT">>, stderr |-> <<>>, str |-> <<>>],
    [type |-> "exit1", stdout |-> <<>>, stderr |-> <<>>, str |-> <<>>] }

SomeAsyncOutcomes ==
  { [type |-> "exit0", stdout |-> <<>>, stderr |-> <<"ERR">>, str |-> <<>>],
    [type |-> "exit1", stdout |-> <<>>, stderr |-> <<"ERR">>, str |-> <<>>] }

\* The server is up and no call has been made yet.
InitConc ==
  /\ platform \in Platforms
  /\ call = [c \in Calls |-> IdleCall]
  /\ boot = BootReady

SomeToolArgs == UNION { { <<tool, a>> : a \in SomeArgsOf(tool) } : tool \in SomeTools }

ConcCallTool(c) == CallToolFrom(c, SomeToolArgs, SomeWorkingDirs)

ConcExecSyncReturns(c) == ExecSyncReturnsWith(c, SomeSyncOutcomes)

ConcExecSyncThrows(c) == ExecSyncThrowsWith(c, SomeSyncOutcomes)

ConcExecAsyncResolves(c) == ExecAsyncResolvesWith(c, SomeAsyncOutcomes)

ConcExecAsyncRejects(c) == ExecAsyncRejectsWith(c, SomeAsyncOutcomes)

NextConc ==
  \E c \in Calls :
    \/ ConcCallTool(c)
    \/ ExecSyncStarts(c)
    \/ ConcExecSyncReturns(c)
    \/ ConcExecSyncThrows(c)
    \/ ConcExecAsyncResolves(c)
    \/ ConcExecAsyncRejects(c)

SpecConc == InitConc /\ [][NextConc]_vars

\* The event loop runs a continuation that is ready to run: a call that is
\* about to enter executeGoCommand does so once no call holds the thread.
Scheduling == \A c \in Calls : WF_vars(ExecSyncStarts(c))

\* Every process that was started exits: execSync returns or throws, and
\* the promise of execAsync settles.
ProcessesExit ==
  \A c \in Calls :
    /\ WF_vars(ConcExecSyncReturns(c) \/ ConcExecSyncThrows(c))
    /\ WF_vars(ConcExecAsyncResolves(c) \/ ConcExecAsyncRejects(c))

\* Calls in flight together, continuations scheduled, processes free to
\* hang.
SchedSpecConc == SpecConc /\ Scheduling

\* Calls in flight together, continuations scheduled, every process exits.
FairSpecConc == SpecConc /\ Scheduling /\ ProcessesExit

(***************************************************************************)
(* main(): the bootstrap of the server                                     *)
(*                                                                         *)
(* The body of main is one try block; catch (error) logs and exits. The    *)
(* statements run one after the other up to `await server.connect`, where  *)
(* main is suspended until the promise settles.                            *)
(***************************************************************************)

\* The values a statement of the bootstrap may throw.
BootErrors == {"Test initialization error", "connect failed", "boom"}

\* A variant in which the thrown value is swallowed and main goes on to
\* its last statement.
ThrowIgnored(b, e) == [b EXCEPT !.error = e, !.pc = "started"]

\* A statement inside the try block throws e: control goes to catch.
Throw(b, e) == [b EXCEPT !.error = e, !.pc = "catch"]

\* console.error(`Starting ...`)
LogStarting ==
  /\ boot.pc = "start"
  /\ boot' = [boot EXCEPT !.log = Append(@, StartingMessage), !.pc = "construct"]
  /\ UNCHANGED <<platform, call>>

\* new McpServer({ name, version })
ConstructServer ==
  /\ boot.pc = "construct"
  /\ LET b == [boot EXCEPT !.servers = @ + 1]
     IN \/ boot' = [b EXCEPT !.pc = "tools"]
        \/ \E e \in BootErrors : boot' = Throw(b, e)
  /\ UNCHANGED <<platform, call>>

\* registerGoTools(server)
RegisterTools ==
  /\ boot.pc = "tools"
  /\ LET b == [boot EXCEPT !.tools = @ + 1]
     IN \/ boot' = [b EXCEPT !.pc = "resource"]
        \/ \E e \in BootErrors : boot' = Throw(b, e)
  /\ UNCHANGED <<platform, call>>

\* server.resource('config', ...)
RegisterResource ==
  /\ boot.pc = "resource"
  /\ LET b == [boot EXCEPT !.resources = @ + 1]
     IN \/ boot' = [b EXCEPT !.pc = "prompt"]
        \/ \E e \in BootErrors : boot' = Throw(b, e)
  /\ UNCHANGED <<platform, call>>

\* server.prompt('help', ...)
RegisterPrompt ==
  /\ boot.pc = "prompt"
  /\ LET b == [boot EXCEPT !.prompts = @ + 1]
     IN \/ boot' = [b EXCEPT !.pc = "transport"]
        \/ \E e \in BootErrors : boot' = Throw(b, e)
  /\ UNCHANGED <<platform, call>>

\* new StdioServerTransport()
CreateTransport ==
  /\ boot.pc = "transport"
  /\ LET b == [boot EXCEPT !.transports = @ + 1]
     IN \/ boot' = [b EXCEPT !.pc = "connect"]
        \/ \E e \in BootErrors : boot' = Throw(b, e)
  /\ UNCHANGED <<platform, call>>

\* server.connect(transport) is called; main awaits its promise.
CallConnect ==
  /\ boot.pc = "connect"
  /\ LET b == [boot EXCEPT !.connects = @ + 1]
     IN \/ boot' = [b EXCEPT !.pc = "awaitConnect"]
        \/ \E e \in BootErrors : boot' = Throw(b, e)
  /\ UNCHANGED <<platform, call>>

\* The promise of connect resolves.
ConnectResolves ==
  /\ boot.pc = "awaitConnect"
  /\ boot' = [boot EXCEPT !.pc = "started"]
  /\ UNCHANGED <<platform, call>>

\* The promise of connect rejects.
ConnectRejects ==
  /\ boot.pc = "awaitConnect"
  /\ \E e \in BootErrors : boot' = Throw(boot, e)
  /\ UNCHANGED <<platform, call>>

\* console.error(`... server started successfully ...`), the last statement
\* of the try block.
LogStarted ==
  /\ boot.pc = "started"
  /\ boot' = [boot EXCEPT !.log = Append(@, StartedMessage), !.pc = "ready"]
  /\ UNCHANGED <<platform, call>>

\* catch (error): console.error('Failed to start server:', error)
CatchLogs ==
  /\ boot.pc = "catch"
  /\ boot' = [boot EXCEPT !.log = Append(@, <<FailedMessage, boot.error>>),
                          !.pc = "exit"]
  /\ UNCHANGED <<platform, call>>

\* process.exit(1)
ProcessExit ==
  /\ boot.pc = "exit"
  /\ boot' = [boot EXCEPT !.exitCode = <<1>>, !.pc = "exited"]
  /\ UNCHANGED <<platform, call>>

\* The process has just been started: no call can have been made.
InitMain ==
  /\ platform \in Platforms
  /\ call = [c \in Calls |-> OffCall]
  /\ boot = BootStart

NextMain ==
  \/ LogStarting
  \/ ConstructServer
  \/ RegisterTools
  \/ RegisterResource
  \/ RegisterPrompt
  \/ CreateTransport
  \/ CallConnect
  \/ ConnectResolves
  \/ ConnectRejects
  \/ LogStarted
  \/ CatchLogs
  \/ ProcessExit

SpecMain == InitMain /\ [][NextMain]_vars

(***************************************************************************)
(* The handlers of src/tools/goTools.ts                                    *)
(*                                                                         *)
(* This file registers six tools that take no working directory: each      *)
(* handler awaits execAsync on its command inside its own try/catch.       *)
(***************************************************************************)

LegacyTools ==
  {"go_find_dead_code", "go_vet", "go_format", "go_lint", "go_test", "go_mod_tidy"}

LegacyArgsOf(tool) ==
  IF tool = "go_format"
    THEN { [DefaultArgs EXCEPT !.write = w] : w \in BOOLEAN }
    ELSE { DefaultArgs }

\* The command line of the handler and the text it returns when the command
\* printed nothing.
LegacyCommand(tool, a) ==
  CASE tool = "go_find_dead_code" ->
         CommandSpec(<<"go run github.com/remyoudompheng/go-misc/deadcode ">> \o a.path,
                     <<"No dead code found">>)
    [] tool = "go_vet" ->
         CommandSpec(<<"go vet ">> \o a.path, <<"No issues found by go vet">>)
    [] tool = "go_format" ->
         CommandSpec(<<"go fmt ">> \o (IF a.write THEN <<"-w">> ELSE <<>>)
                       \o <<" ">> \o a.path,
                     <<"No formatting changes needed">>)
    [] tool = "go_lint" ->
         CommandSpec(<<"golint ">> \o a.path, <<"No lint issues found">>)
    [] tool = "go_test" ->
         CommandSpec(<<"go test -v ">> \o a.path, <<"Tests passed with no output">>)
    [] OTHER ->
         CommandSpec(<<"go mod tidy">>, <<"Dependencies cleaned up successfully">>)

\* error instanceof Error ? error.message : String(error)
MessageOf(error) == IF error.isErr THEN error.message ELSE error.str

\* The catch block of each handler.
LegacyCatch(tool, error) ==
  CASE tool = "go_find_dead_code" ->
         Result(Or(IF error.isErr /\ error.hasStdout THEN error.stdout ELSE error.str,
                   <<"Error running deadcode: ">> \o MessageOf(error)))
    [] tool = "go_vet" ->
         Result(Or(IF error.isErr /\ error.hasStdout THEN error.stderr ELSE error.str,
                   <<"Error running go vet: ">> \o MessageOf(error)))
    [] tool = "go_format" ->
         ErrorResult(<<"Error running go fmt: ">> \o MessageOf(error))
    [] tool = "go_lint" ->
         ErrorResult(<<"Error running golint: ">> \o MessageOf(error))
    [] tool = "go_test" ->
         ErrorResult(Or(IF error.isErr /\ error.hasStdout THEN error.stdout ELSE error.str,
                        <<"Error running tests: ">> \o MessageOf(error)))
    [] OTHER ->
         ErrorResult(<<"Error running go mod tidy: ">> \o MessageOf(error))

\* The runtime invokes a handler: execAsync is started on the command, with
\* no options, and the handler suspends on its promise.
LegacyCallTool(c) ==
  /\ call[c].pc = "idle"
  /\ \E tool \in LegacyTools :
       \E a \in LegacyArgsOf(tool) :
         LET cmd == LegacyCommand(tool, a)
         IN call' = [call EXCEPT ![c] =
              [@ EXCEPT !.pc = "legacy", !.tool = tool, !.args = a,
                        !.mode = "single", !.cmds = <<cmd>>, !.idx = 1,
                        !.attempts = <<[kind |-> "async", step |-> 1,
                                        cmd |-> cmd.command, cwd |-> NoCwd,
                                        alive |-> TRUE]>>]]
  /\ UNCHANGED <<platform, boot>>

\* The promise resolves: stdout || stderr || message.
LegacyResolves(c) ==
  /\ call[c].pc = "legacy"
  /\ \E o \in AsyncOutcomes :
       /\ Succeeds(o)
       /\ LET s == call[c]
              res == Result(Or(o.stdout, Or(o.stderr, s.cmds[1].successMessage)))
          IN call' = [call EXCEPT ![c] =
               [EndAttempt(s) EXCEPT !.pc = "done", !.asyncOut = o,
                                     !.steps = <<res>>, !.result = res]]
  /\ UNCHANGED <<platform, boot>>

\* The promise rejects: the handler's catch block builds the result.
LegacyRejects(c) ==
  /\ call[c].pc = "legacy"
  /\ \E o \in AsyncOutcomes :
       /\ ~Succeeds(o)
       /\ LET s == call[c]
              res == LegacyCatch(s.tool, ThrownError(o, s.cmds[1].command))
          IN call' = [call EXCEPT ![c] =
               [EndAttempt(s) EXCEPT !.pc = "done", !.asyncOut = o,
                                     !.steps = <<res>>, !.result = res]]
  /\ UNCHANGED <<platform, boot>>

NextLegacy ==
  \E c \in Calls :
    \/ LegacyCallTool(c)
    \/ LegacyResolves(c)
    \/ LegacyRejects(c)

SpecLegacy == Init /\ [][NextLegacy]_vars

(***************************************************************************)
(* Vocabulary of the properties                                            *)
(***************************************************************************)

\* The policy of the path validator as the design states it: a drive-letter
\* prefix, or a leading forward or backward slash.
AbsolutePolicy(path) ==
  \/ Len(path) >= 2 /\ path[1] \in Letters /\ path[2] = ":"
  \/ Len(path) >= 1 /\ path[1] \in {"/", BSlash}

\* p occurs in s as a contiguous piece.
Contains(s, p) ==
  \E i \in 1..(Len(s) + 1) :
     /\ i + Len(p) - 1 <= Len(s)
     /\ SubSeq(s, i, i + Len(p) - 1) = p

\* The number of positions at which p occurs in s.
Occurrences(s, p) ==
  Cardinality({ i \in 1..Len(s) :
                  /\ i + Len(p) - 1 <= Len(s)
                  /\ SubSeq(s, i, i + Len(p) - 1) = p })

Invoked(s) == s.pc \notin {"off", "idle"}

\* The latest executeGoCommand invocation of the call has returned, so that
\* syncOut and asyncOut tell what its attempts met and the last entry of
\* steps is what it returned.
Settled(s) == s.steps # <<>> /\ s.pc \in {"exec", "done", "threw"}

LastStep(s) == s.steps[Len(s.steps)]

LastSpec(s) == s.cmds[Len(s.steps)]

FallbackRan(s) == s.asyncOut.type # "none"

BothFailed(s) == ~Succeeds(s.syncOut) /\ FallbackRan(s) /\ ~Succeeds(s.asyncOut)

OneSucceeded(s) == Succeeds(s.syncOut) \/ Succeeds(s.asyncOut)

\* The process whose success ended the invocation.
Winner(s) == IF Succeeds(s.syncOut) THEN s.syncOut ELSE s.asyncOut

NotFlagged(res) == ~res.raised /\ res.isError \in {"unset", "false"}

(***************************************************************************)
(* C1                                                                      *)
(***************************************************************************)

\* C1: whatever the tool, a call whose working directory does not satisfy
\* the absoluteness policy ends at once with isError = true and a text that
\* names the directory and says it is not an absolute path; it invokes
\* neither execSync nor execAsync and runs no step.
C1_RejectedWdSpawnsNothing ==
  \A c \in Calls :
    LET s == call[c]
    IN (Invoked(s) /\ ~AbsolutePolicy(s.wd)) =>
         /\ s.pc = "done"
         /\ s.result.isError = "true"
         /\ Contains(s.result.text, s.wd)
         /\ Contains(s.result.text, NotAbsoluteText)
         /\ s.attempts = <<>>
         /\ s.steps = <<>>

\* A multi-step tool was called with the relative directory "rel/p" and
\* answered with the validation error.
C1_Witness ==
  \E c \in Calls :
    /\ call[c].pc = "done"
    /\ call[c].tool = "go_fix"
    /\ call[c].wd = <<"r", "e", "l", "/", "p">>
    /\ call[c].result.isError = "true"
    /\ call[c].attempts = <<>>

(***************************************************************************)
(* C2                                                                      *)
(***************************************************************************)

\* C2: executeGoCommand never rejects: no invocation settles by raising and
\* no handler's promise rejects, whatever the two attempts met; and when
\* both the synchronous attempt and the asynchronous fallback failed the
\* result it returned has isError = true.
C2_ExecuteNeverThrows ==
  \A c \in Calls :
    LET s == call[c]
    IN /\ s.pc # "threw"
       /\ \A i \in 1..Len(s.steps) : ~s.steps[i].raised
       /\ (Settled(s) /\ BothFailed(s)) => LastStep(s).isError = "true"

\* Both strategies failed, the first with a thrown non-Error value and the
\* second with a spawn failure, and the call still resolved.
C2_Witness ==
  \E c \in Calls :
    /\ call[c].pc = "done"
    /\ call[c].mode = "single"
    /\ call[c].syncOut.type = "value"
    /\ call[c].asyncOut.type = "spawnfail"
    /\ call[c].result.isError = "true"

(***************************************************************************)
(* C3                                                                      *)
(***************************************************************************)

\* C3 as stated: whenever a process run by executeGoCommand exited non-zero,
\* the result has isError = true and a non-empty text.
C3_Original ==
  \A c \in Calls :
    LET s == call[c]
    IN (Settled(s) /\ (s.syncOut.type = "exit1" \/ s.asyncOut.type = "exit1")) =>
         /\ LastStep(s).isError = "true"
         /\ LastStep(s).text # <<>>

\* C3 (amended): whenever the last process run by executeGoCommand exits
\* non-zero, i.e. the asynchronous re-run that follows every failure of the
\* synchronous attempt, the result has isError = true and a non-empty text.
C3_LastProcessNonZero ==
  \A c \in Calls :
    LET s == call[c]
    IN (Settled(s) /\ s.asyncOut.type = "exit1") =>
         /\ ~LastStep(s).raised
         /\ LastStep(s).isError = "true"
         /\ LastStep(s).text # <<>>

\* The synchronous process and the asynchronous re-run both exited
\* non-zero, silently.
C3_Witness ==
  \E c \in Calls :
    LET s == call[c]
    IN /\ s.pc = "done"
       /\ s.mode = "single"
       /\ s.syncOut.type = "exit1"
       /\ s.asyncOut = [type |-> "exit1", stdout |-> <<>>, stderr |-> <<>>, str |-> <<>>]
       /\ s.result.isError = "true"

(***************************************************************************)
(* C4                                                                      *)
(***************************************************************************)

\* C4: when the process that ended executeGoCommand exits zero with empty
\* stdout and empty stderr, the result's text is the successMessage and
\* isError is unset; so go_vet answers 'No issues found by go vet' and
\* go_mod_tidy 'Dependencies cleaned up successfully', without error flag.
C4_SilentSuccessGivesMessage ==
  \A c \in Calls :
    LET s == call[c]
    IN (Settled(s) /\ OneSucceeded(s)
          /\ Winner(s).stdout = <<>> /\ Winner(s).stderr = <<>>) =>
         /\ ~LastStep(s).raised
         /\ LastStep(s).text = LastSpec(s).successMessage
         /\ LastStep(s).isError = "unset"
         /\ s.tool = "go_vet" =>
              s.result = [raised |-> FALSE, isError |-> "unset",
                          text |-> <<"No issues found by go vet">>]
         /\ s.tool = "go_mod_tidy" =>
              s.result = [raised |-> FALSE, isError |-> "unset",
                          text |-> <<"Dependencies cleaned up successfully">>]

\* go_vet ran `go vet ./...`, which exited zero without output.
C4_Witness ==
  \E c \in Calls :
    LET s == call[c]
    IN /\ s.pc = "done"
       /\ s.tool = "go_vet"
       /\ s.syncOut = [type |-> "exit0", stdout |-> <<>>, stderr |-> <<>>, str |-> <<>>]
       /\ s.result.text = <<"No issues found by go vet">>

(***************************************************************************)
(* C5                                                                      *)
(***************************************************************************)

\* C5: on every successful execution, whichever strategy succeeded, text is
\* the process's stdout if non-empty, else its stderr if non-empty, else
\* successMessage, and isError is unset.
C5_SuccessTextStdoutStderrMessage ==
  \A c \in Calls :
    LET s == call[c]
    IN (Settled(s) /\ OneSucceeded(s)) =>
         /\ NotFlagged(LastStep(s))
         /\ LastStep(s).text =
              Or(Winner(s).stdout, Or(Winner(s).stderr, LastSpec(s).successMessage))

(***************************************************************************)
(* C6                                                                      *)
(***************************************************************************)

\* The error the outer catch received when both strategies failed.
CaughtError(s) ==
  ThrownError(s.asyncOut, s.attempts[Len(s.attempts)].cmd)

ErrorPrefix == <<"Error running command: ">>

\* C6 as stated: on every failed execution isError = true and text is the
\* captured stdout/stderr if present and non-empty, otherwise the error's
\* message, otherwise (no message) the error's string form.
C6_Original ==
  \A c \in Calls :
    LET s == call[c]
        e == CaughtError(s)
        captured == IF e.hasStdout THEN Or(e.stdout, e.stderr) ELSE <<>>
        t == LastStep(s).text
    IN (Settled(s) /\ BothFailed(s)) =>
         /\ LastStep(s).isError = "true"
         /\ captured # <<>> => t = captured
         /\ (captured = <<>> /\ e.isErr) => t \in {e.message, ErrorPrefix \o e.message}
         /\ (captured = <<>> /\ ~e.isErr) => t \in {e.str, ErrorPrefix \o e.str}

\* C6 (amended): on every failed execution isError = true; for an Error
\* that carries captured output the text is its stdout, else its stderr,
\* else 'Error running command: ' and its message; for every other thrown
\* value, an Error without captured output included, the text is its string
\* form, or 'Error running command: ' and the string form when that is empty.
C6_FailureText ==
  \A c \in Calls :
    LET s == call[c]
        e == CaughtError(s)
        t == LastStep(s).text
    IN (Settled(s) /\ BothFailed(s)) =>
         /\ ~LastStep(s).raised
         /\ LastStep(s).isError = "true"
         /\ (e.isErr /\ e.hasStdout) =>
              t = Or(e.stdout, Or(e.stderr, ErrorPrefix \o e.message))
         /\ ~(e.isErr /\ e.hasStdout) =>
              t = Or(e.str, ErrorPrefix \o e.str)

\* Both attempts threw an Error that carries no captured output: the text
\* is the error's string form, name included.
C6_Witness ==
  \E c \in Calls :
    LET s == call[c]
    IN /\ s.pc = "done"
       /\ s.mode = "single"
       /\ s.syncOut.type = "error"
       /\ s.asyncOut.type = "error"
       /\ s.result.text = <<"TypeError: ", "bad option">>
       /\ s.result.isError = "true"

(***************************************************************************)
(* C7                                                                      *)
(***************************************************************************)

\* C7: every result a tool call returns, and every result executeGoCommand
\* returns on the way, has a non-empty text: on a validation error, on
\* success by either strategy, on failure, and for a sequence of any length.
C7_TextNeverEmpty ==
  \A c \in Calls :
    LET s == call[c]
    IN /\ s.pc = "done" => s.result.text # <<>>
       /\ \A i \in 1..Len(s.steps) :
            ~s.steps[i].raised => s.steps[i].text # <<>>

\* go_fix ran its three steps, none of which wrote anything: every step's
\* text fell back to its successMessage.
C7_Witness ==
  \E c \in Calls :
    LET s == call[c]
    IN /\ s.pc = "done"
       /\ s.tool = "go_fix"
       /\ Len(s.steps) = 3
       /\ \A i \in 1..3 : s.steps[i].text = s.cmds[i].successMessage
       /\ s.result.text # <<>>

(***************************************************************************)
(* C8                                                                      *)
(***************************************************************************)

StepFailed(res) == res.raised \/ res.isError = "true"

\* C8: a sequence runs every command of its list whatever the earlier ones
\* did: when it returns, every position has been executed (a synchronous
\* attempt was made for it) and the text holds the labeled block of every
\* command with that step's text. For [A, B] with A failed and B succeeded
\* the result has isError = true and holds both blocks.
C8_SequenceRunsEveryCommand ==
  \A c \in Calls :
    LET s == call[c]
    IN (s.mode = "seq" /\ s.pc = "done") =>
         /\ Len(s.steps) = Len(s.cmds)
         /\ \A i \in 1..Len(s.cmds) :
              /\ \E k \in 1..Len(s.attempts) :
                   s.attempts[k].kind = "sync" /\ s.attempts[k].step = i
              /\ ~s.steps[i].raised
              /\ Contains(s.result.text,
                          <<"[">> \o s.cmds[i].command \o <<"]:\n">> \o s.steps[i].text)
         /\ (Len(s.cmds) = 2 /\ StepFailed(s.steps[1]) /\ ~StepFailed(s.steps[2])) =>
              s.result.isError = "true"

\* go_test with coverage: the test step failed, the coverage step still ran
\* and printed OUT.
C8_Witness ==
  \E c \in Calls :
    LET s == call[c]
    IN /\ s.pc = "done"
       /\ s.tool = "go_test"
       /\ Len(s.steps) = 2
       /\ s.steps[1].isError = "true"
       /\ s.steps[2] = [raised |-> FALSE, text |-> <<"OUT">>, isError |-> "unset"]
       /\ s.result.isError = "true"

(***************************************************************************)
(* C9                                                                      *)
(***************************************************************************)

\* C9: the isError of a sequence's result is the OR of its steps' failures:
\* true exactly when some step's result had isError = true or the executor
\* raised for it; the flag kept during the loop is that OR over the steps
\* run so far, so a later success never clears it.
C9_SequenceErrorIsOr ==
  \A c \in Calls :
    LET s == call[c]
        anyFailed == \E i \in 1..Len(s.steps) : StepFailed(s.steps[i])
    IN s.mode = "seq" =>
         /\ s.hasError <=> anyFailed
         /\ s.pc = "done" => (s.result.isError = "true" <=> anyFailed)

\* go_fix: the first of three steps failed and the two after it succeeded.
C9_Witness ==
  \E c \in Calls :
    LET s == call[c]
    IN /\ s.pc = "done"
       /\ s.tool = "go_fix"
       /\ Len(s.steps) = 3
       /\ StepFailed(s.steps[1])
       /\ ~StepFailed(s.steps[2])
       /\ ~StepFailed(s.steps[3])
       /\ s.result.isError = "true"

(***************************************************************************)
(* C10                                                                     *)
(***************************************************************************)

\* C10 as stated: a sequence over the empty list returns text = msg with
\* the isError field absent, and runs nothing.
C10_Original ==
  \A c \in Calls :
    LET s == call[c]
    IN (s.mode = "seq" /\ s.cmds = <<>> /\ s.pc = "done") =>
         /\ s.result.text = s.msg
         /\ s.result.isError = "unset"
         /\ s.attempts = <<>>

\* C10 (amended): a sequence over the empty list returns text = msg with
\* isError = false, the field being present with the value false (it is
\* absent only on the executor's own success path), and runs nothing.
C10_EmptySequence ==
  \A c \in Calls :
    LET s == call[c]
    IN (s.mode = "seq" /\ s.cmds = <<>> /\ s.pc = "done") =>
         /\ s.result.text = s.msg
         /\ s.tool = "go_fix" => s.result.text = <<"Code fixed successfully">>
         /\ s.result.isError = "false"
         /\ s.attempts = <<>>
         /\ s.steps = <<>>

\* go_fix with deps, imports and format all false.
C10_Witness ==
  \E c \in Calls :
    LET s == call[c]
    IN /\ s.pc = "done"
       /\ s.tool = "go_fix"
       /\ ~s.args.deps /\ ~s.args.imports /\ ~s.args.format
       /\ AbsolutePolicy(s.wd)
       /\ s.result.text = <<"Code fixed successfully">>

(***************************************************************************)
(* C11                                                                     *)
(***************************************************************************)

\* C11: within one sequence the steps run strictly in list order and never
\* concurrently: the attempts are made in the order of the steps, each on
\* the command of its position in the list, and an attempt is made only when
\* every earlier process has exited, so at most one process of the sequence
\* is alive at any time, and only while the call is suspended on it.
C11_SequentialStepsInOrder ==
  \A c \in Calls :
    LET s == call[c]
        n == Len(s.attempts)
    IN s.mode = "seq" =>
         /\ \A k \in 1..n :
              /\ s.attempts[k].step \in 1..Len(s.cmds)
              /\ k < n => ~s.attempts[k].alive
              /\ k < n => s.attempts[k].step <= s.attempts[k + 1].step
              /\ s.attempts[k].alive =>
                   s.pc = (IF s.attempts[k].kind = "sync" THEN "sync" ELSE "await")
              /\ s.attempts[k].step <= Len(s.steps) + 1
         /\ Cardinality({k \in 1..n : s.attempts[k].alive}) <= 1
         /\ \A i \in 1..Len(s.steps) :
              \E k \in 1..n : s.attempts[k].step = i

\* go_fix: the first step fell back to its asynchronous run, which has
\* exited, and the second step has made its synchronous attempt.
C11_Witness ==
  \E c \in Calls :
    LET s == call[c]
    IN /\ s.tool = "go_fix"
       /\ Len(s.attempts) >= 3
       /\ s.attempts[2].kind = "async" /\ s.attempts[2].step = 1
       /\ ~s.attempts[2].alive
       /\ s.attempts[3].kind = "sync" /\ s.attempts[3].step = 2

(***************************************************************************)
(* C12                                                                     *)
(***************************************************************************)

\* The positions in the attempts of s that belong to step i.
AttemptsOf(s, i) == {k \in 1..Len(s.attempts) : s.attempts[k].step = i}

\* C12: every invocation tries execSync first; execAsync is tried only
\* right after the synchronous attempt of the same invocation raised, at
\* most once, with the same command line and the same working-directory
\* setting; when execSync returned, execAsync is never started.
C12_SyncFirstThenSameCommand ==
  \A c \in Calls :
    LET s == call[c]
        n == Len(s.attempts)
    IN /\ n > 0 => s.attempts[1].kind = "sync"
       /\ \A k \in 1..n :
            s.attempts[k].kind = "async" =>
              /\ k > 1
              /\ s.attempts[k - 1].kind = "sync"
              /\ s.attempts[k - 1].step = s.attempts[k].step
              /\ s.attempts[k - 1].cmd = s.attempts[k].cmd
              /\ s.attempts[k - 1].cwd = s.attempts[k].cwd
       /\ \A i \in 1..Len(s.cmds) :
            Cardinality({k \in AttemptsOf(s, i) : s.attempts[k].kind = "async"}) <= 1
       /\ (Settled(s) /\ Succeeds(s.syncOut)) =>
            \A k \in AttemptsOf(s, Len(s.steps)) : s.attempts[k].kind = "sync"
       /\ s.pc = "await" => ~Succeeds(s.syncOut)

\* On win32 the synchronous attempt raised and the fallback was started on
\* the same rewritten command line.
C12_Witness ==
  \E c \in Calls :
    LET s == call[c]
    IN /\ platform = "win32"
       /\ s.pc = "await"
       /\ Len(s.attempts) = 2
       /\ s.attempts[2].kind = "async"
       /\ s.attempts[2].cmd = s.attempts[1].cmd
       /\ s.attempts[2].cmd # s.cmds[1].command

(***************************************************************************)
(* C13                                                                     *)
(***************************************************************************)

\* C13: every invocation of executeGoCommand makes exactly one synchronous
\* execution attempt and at most one more, the asynchronous one, made only
\* when the synchronous one failed: never more than two, and none after the
\* fallback failed.
C13_AtMostTwoAttempts ==
  \A c \in Calls :
    LET s == call[c]
    IN /\ \A i \in 1..Len(s.steps) :
            /\ Cardinality({k \in AttemptsOf(s, i) : s.attempts[k].kind = "sync"}) = 1
            /\ Cardinality(AttemptsOf(s, i)) \in {1, 2}
       /\ Settled(s) =>
            Cardinality(AttemptsOf(s, Len(s.steps))) =
              IF Succeeds(s.syncOut) THEN 1 ELSE 2
       /\ Len(s.attempts) <= 2 * Len(s.cmds)
       /\ (Settled(s) /\ BothFailed(s)) => \A k \in 1..Len(s.attempts) : ~s.attempts[k].alive

\* go_fix ran three steps, each of which needed its fallback: six attempts,
\* the last of which failed.
C13_Witness ==
  \E c \in Calls :
    LET s == call[c]
    IN /\ s.pc = "done"
       /\ s.tool = "go_fix"
       /\ Len(s.steps) = 3
       /\ Len(s.attempts) = 6
       /\ BothFailed(s)

(***************************************************************************)
(* C14                                                                     *)
(***************************************************************************)

\* The directory with every forward slash turned into a backslash, as the
\* design states the translation.
Translated(wd) == [i \in 1..Len(wd) |-> IF wd[i] = "/" THEN BSlash ELSE wd[i]]

\* The directory is of the drive-relative form: separator, one letter,
\* separator, rest.
DriveRelative(wd) ==
  /\ Len(wd) >= 3
  /\ wd[1] \in {"/", BSlash}
  /\ wd[2] \in Letters
  /\ wd[3] \in {"/", BSlash}

\* The drive-letter form L:\rest of a drive-relative directory.
DriveLetterForm(wd) ==
  <<wd[2], ":", BSlash>> \o SubSeq(Translated(wd), 4, Len(wd))

\* C14: on win32, for every drive letter L, a working directory of the
\* drive-relative form \L\rest (or /L/rest) is rewritten to L:\rest before it
\* is used in the cd prefix: every command line run for it changes to drive
\* L: and to the directory L:\rest.
C14_DriveRelativeRewritten ==
  \A c \in Calls :
    LET s == call[c]
    IN (platform = "win32" /\ DriveRelative(s.wd)) =>
         \A k \in 1..Len(s.attempts) :
           StartsWith(s.attempts[k].cmd,
                      <<"cd /d ", s.wd[2], ": && cd \"">>
                        \o DriveLetterForm(s.wd) \o <<"\" && ">>)

(***************************************************************************)
(* C15                                                                     *)
(***************************************************************************)

\* p is the end of s.
EndsWith(s, p) ==
  /\ Len(p) <= Len(s)
  /\ SubSeq(s, Len(s) - Len(p) + 1, Len(s)) = p

\* C15: on win32 every forward slash of the working directory is translated
\* to a backslash and the directory is folded into the command line as a cd
\* prefix, with no cwd option passed to execSync or execAsync; on every other
\* platform both are handed exactly the caller's command and the working
\* directory, unchanged, as the cwd option.
C15_PlatformCommandAndCwd ==
  \A c \in Calls :
    LET s == call[c]
    IN \A k \in 1..Len(s.attempts) :
         LET a       == s.attempts[k]
             command == s.cmds[a.step].command
             dir     == IF StartsWith(Translated(s.wd), <<BSlash, "s", BSlash>>)
                          THEN DriveLetterForm(s.wd)
                          ELSE Translated(s.wd)
         IN IF platform = "win32"
              THEN /\ a.cwd = NoCwd
                   /\ a.cmd[1] \in {"cd /d ", "cd /d \""}
                   /\ \A i \in 1..Len(a.cmd) : a.cmd[i] # "/"
                   /\ \E cd \in {"cd /d \"", ": && cd \""} :
                        EndsWith(a.cmd, <<cd>> \o dir \o <<"\" && ">> \o command)
              ELSE /\ a.cmd = command
                   /\ a.cwd = s.wd

\* On win32 a directory written with forward slashes went through both
\* execution primitives.
C15_Witness ==
  \E c \in Calls :
    LET s == call[c]
    IN /\ platform = "win32"
       /\ s.wd = <<"/", "d", "/", "P">>
       /\ Len(s.attempts) = 2
       /\ s.attempts[1].kind = "sync"
       /\ s.attempts[2].kind = "async"
       /\ s.attempts[2].cwd = NoCwd

(***************************************************************************)
(* C16                                                                     *)
(***************************************************************************)

\* The leading words of the three go_fix steps, in their fixed order.
FixHeads == <<"go mod tidy", "goimports -w ", "gofumpt -w ">>

FixEnabled(a) == <<a.deps, a.imports, a.format>>

\* The leading words of the steps the flags enable, in the fixed order.
EnabledHeads(a) ==
  (IF a.deps THEN <<FixHeads[1]>> ELSE <<>>)
    \o (IF a.imports THEN <<FixHeads[2]>> ELSE <<>>)
    \o (IF a.format THEN <<FixHeads[3]>> ELSE <<>>)

\* The first position of token h in text, 0 when it does not occur.
FirstPos(text, h) ==
  IF \E i \in 1..Len(text) : text[i] = h
    THEN CHOOSE i \in 1..Len(text) :
           text[i] = h /\ \A j \in 1..(i - 1) : text[j] # h
    ELSE 0

\* C16: whatever the flags of go_fix, the steps that run are exactly the
\* enabled ones in the order go mod tidy, goimports, gofumpt: the attempts
\* are made on the enabled commands in that order, one result per enabled
\* step is collected, and the final text names every enabled step, in that
\* order, and no disabled one.
C16_FixRunsEnabledStepsInOrder ==
  \A c \in Calls :
    LET s     == call[c]
        heads == EnabledHeads(s.args)
    IN (s.tool = "go_fix" /\ Invoked(s) /\ AbsolutePolicy(s.wd)) =>
         /\ Len(s.cmds) = Len(heads)
         /\ \A i \in 1..Len(s.cmds) : s.cmds[i].command[1] = heads[i]
         /\ \A k \in 1..Len(s.attempts) :
              /\ Contains(s.attempts[k].cmd, s.cmds[s.attempts[k].step].command)
              /\ \A h \in 1..3 :
                   ~FixEnabled(s.args)[h] =>
                     \A i \in 1..Len(s.attempts[k].cmd) :
                       s.attempts[k].cmd[i] # FixHeads[h]
              /\ k < Len(s.attempts) =>
                   s.attempts[k + 1].step \in {s.attempts[k].step, s.attempts[k].step + 1}
         /\ s.attempts # <<>> => s.attempts[1].step = 1
         /\ s.pc = "done" =>
              /\ Len(s.steps) = Len(heads)
              /\ \A i \in 1..Len(heads) :
                   \E k \in 1..Len(s.attempts) : s.attempts[k].step = i
              /\ ~s.result.raised
              /\ \A h \in 1..3 :
                   FixEnabled(s.args)[h] <=> FirstPos(s.result.text, FixHeads[h]) > 0
              /\ \A g, h \in 1..3 :
                   (g < h /\ FixEnabled(s.args)[g] /\ FixEnabled(s.args)[h]) =>
                     FirstPos(s.result.text, FixHeads[g])
                       < FirstPos(s.result.text, FixHeads[h])

\* go_fix with deps = false, imports = true, format = true has run its two
\* steps.
C16_Witness ==
  \E c \in Calls :
    LET s == call[c]
    IN /\ s.tool = "go_fix"
       /\ s.pc = "done"
       /\ ~s.args.deps /\ s.args.imports /\ s.args.format
       /\ Len(s.steps) = 2
       /\ s.cmds[1].command[1] = "goimports -w "
       /\ s.cmds[2].command[1] = "gofumpt -w "
       /\ FirstPos(s.result.text, "go mod tidy") = 0

(***************************************************************************)
(* C17                                                                     *)
(***************************************************************************)

\* token is one of the pieces of the command line cmd.
HasToken(cmd, token) == \E i \in 1..Len(cmd) : cmd[i] = token

\* C17: go_test with coverage = true runs exactly two steps in order, first
\* the go test command carrying -coverprofile, then go tool cover -func, and
\* the final text is the two steps' outputs joined by the delimiter; with
\* coverage = false exactly one command runs through the executor, its result
\* is the response, and no coverage step runs.
C17_TestCoverageSteps ==
  \A c \in Calls :
    LET s == call[c]
        n == Len(s.attempts)
    IN (s.tool = "go_test" /\ Invoked(s) /\ AbsolutePolicy(s.wd)) =>
         IF s.args.coverage
           THEN /\ s.mode = "seq"
                /\ Len(s.cmds) = 2
                /\ s.cmds[1].command[1] = "go test"
                /\ HasToken(s.cmds[1].command, " -coverprofile=coverage.out")
                /\ s.cmds[2].command = <<"go tool cover -func=coverage.out">>
                /\ \A k \in 1..n :
                     /\ s.attempts[k].step \in {1, 2}
                     /\ Contains(s.attempts[k].cmd, s.cmds[s.attempts[k].step].command)
                     /\ k < n => s.attempts[k].step <= s.attempts[k + 1].step
                /\ s.pc = "done" =>
                     /\ Len(s.steps) = 2
                     /\ \A i \in {1, 2} : \E k \in 1..n : s.attempts[k].step = i
                     /\ s.result.text =
                          <<"[">> \o s.cmds[1].command \o <<"]:\n">> \o s.steps[1].text
                            \o <<"\n\n------------------------------\n\n">>
                            \o <<"[">> \o s.cmds[2].command \o <<"]:\n">> \o s.steps[2].text
           ELSE /\ s.mode = "single"
                /\ Len(s.cmds) = 1
                /\ s.cmds[1].command[1] = "go test"
                /\ \A k \in 1..n :
                     /\ s.attempts[k].step = 1
                     /\ Contains(s.attempts[k].cmd, s.cmds[1].command)
                     /\ ~HasToken(s.attempts[k].cmd, "go tool cover -func=coverage.out")
                     /\ ~HasToken(s.attempts[k].cmd, " -coverprofile=coverage.out")
                /\ s.pc = "done" =>
                     /\ Len(s.steps) = 1
                     /\ s.result = s.steps[1]

\* go_test with coverage has run both steps, the first of which failed, and
\* returned the joined text.
C17_Witness ==
  \E c \in Calls :
    LET s == call[c]
    IN /\ s.tool = "go_test"
       /\ s.args.coverage
       /\ s.pc = "done"
       /\ Len(s.steps) = 2
       /\ s.steps[1].isError = "true"
       /\ Contains(s.result.text, <<"\n\n------------------------------\n\n", "[",
                                    "go tool cover -func=coverage.out", "]:\n">>)

(***************************************************************************)
(* C18                                                                     *)
(***************************************************************************)

\* The call was answered with the validation error and nothing else was
\* done for it.
WdRejected(s) ==
  /\ s.pc = "done"
  /\ s.result.isError = "true"
  /\ s.result.text = <<"Error: Working directory \"">> \o s.wd \o NotAbsoluteText
  /\ s.attempts = <<>>
  /\ s.steps = <<>>

\* The validation has just accepted the directory: the handler is about to
\* run its first command.
JustAccepted(s) == s.pc = "exec" /\ s.idx = 1 /\ s.attempts = <<>>

\* C18: the validator accepts a path exactly when it starts with a
\* drive-letter prefix (a letter followed by ':') or begins with a forward
\* slash or a backslash: a call is answered with the validation error exactly
\* when its directory is of neither form (the empty string is), and for an
\* accepted directory the check leaves no error and no trace, the call going
\* on with no result, no attempt and no step recorded.
C18_IsAbsoluteExactPolicy ==
  \A c \in Calls :
    LET s  == call[c]
        wd == s.wd
        policy == \/ Len(wd) >= 2 /\ wd[1] \in Letters /\ wd[2] = ":"
                  \/ Len(wd) >= 1 /\ wd[1] = "/"
                  \/ Len(wd) >= 1 /\ wd[1] = BSlash
    IN Invoked(s) =>
         /\ WdRejected(s) <=> ~policy
         /\ wd = <<>> => WdRejected(s)
         /\ policy =>
              /\ ~(s.pc = "done" /\ Contains(s.result.text, NotAbsoluteText))
              /\ s.pc \in {"exec", "await"} => s.result = NoResult
              /\ JustAccepted(s) => s.steps = <<>> /\ s.combinedOutput = <<>> /\ ~s.hasError

\* A directory that begins with a backslash was accepted and its first
\* command is about to run.
C18_Witness ==
  \E c \in Calls :
    LET s == call[c]
    IN /\ s.wd = <<BSlash, "s", BSlash, "P", BSlash, "x">>
       /\ JustAccepted(s)
       /\ s.result = NoResult

(***************************************************************************)
(* C19                                                                     *)
(***************************************************************************)

\* The number of slash characters, forward or backward, in the path.
SlashCount(path) ==
  Cardinality({i \in 1..Len(path) : path[i] \in {"/", BSlash}})

\* The response of the call carries the 'is not an absolute path' error.
CarriesWdError(s) ==
  s.pc = "done" /\ Contains(s.result.text, NotAbsoluteText)

SomePath == <<"r", "e", "l", "/", "p">>

SyncError(s) ==
  ThrownError(s.syncOut, s.attempts[Len(s.attempts)].cmd)

\* The error e can be read in the result: the result is flagged, or its
\* text holds the message, the string form or the captured stderr of e.
ErrorShown(res, e) ==
  /\ ~res.raised
  /\ \/ res.isError = "true"
     \/ e.message # <<>> /\ Contains(res.text, e.message)
     \/ e.str # <<>> /\ Contains(res.text, e.str)
     \/ e.stderr # <<>> /\ Contains(res.text, e.stderr)

\* C20 as stated: whenever an execution attempt of a call failed, the
\* failure of a synchronous attempt whose fallback then succeeded included,
\* the failure can be read in the result returned for it.
C20_Original ==
  \A c \in Calls :
    LET s == call[c]
    IN (Settled(s) /\ ~Succeeds(s.syncOut)) =>
         ErrorShown(LastStep(s), SyncError(s))

\* C20, amended: no failed execution is dropped or raised: whenever both
\* attempts of an invocation failed its result is a non-empty text with
\* isError = true, in a sequence that text is a block of the combined output
\* and the final result carries isError = true and the text of every failed
\* step, and no call ends by raising; the error of a synchronous attempt
\* whose fallback succeeded is not in the response, which is the plain
\* success of the fallback.
C20_FinalFailuresVisible ==
  \A c \in Calls :
    LET s == call[c]
    IN /\ s.pc # "threw"
       /\ (Settled(s) /\ BothFailed(s)) =>
            /\ ~LastStep(s).raised
            /\ LastStep(s).isError = "true"
            /\ LastStep(s).text # <<>>
            /\ s.mode = "seq" =>
                 /\ s.hasError
                 /\ Contains(s.combinedOutput,
                             <<"[">> \o LastSpec(s).command \o <<"]:\n">>
                               \o LastStep(s).text)
       /\ (s.pc = "done" /\ s.steps # <<>>) =>
            /\ ~s.result.raised
            /\ \A i \in 1..Len(s.steps) :
                 s.steps[i].isError = "true" =>
                   /\ s.result.isError = "true"
                   /\ Contains(s.result.text, s.steps[i].text)
       /\ (Settled(s) /\ ~Succeeds(s.syncOut) /\ Succeeds(s.asyncOut)) =>
            /\ LastStep(s).isError = "unset"
            /\ LastStep(s).text =
                 Or(s.asyncOut.stdout,
                    Or(s.asyncOut.stderr, LastSpec(s).successMessage))

\* go_fix: the first step failed in both attempts, the last one succeeded,
\* and the response still carries the failed step's text and isError = true.
C20_Witness ==
  \E c \in Calls :
    LET s == call[c]
    IN /\ s.tool = "go_fix"
       /\ s.pc = "done"
       /\ Len(s.steps) = 3
       /\ s.steps[1].isError = "true"
       /\ s.steps[3].isError = "unset"
       /\ Succeeds(s.syncOut)
       /\ s.result.isError = "true"
       /\ Contains(s.result.text, s.steps[1].text)

(***************************************************************************)
(* C24                                                                     *)
(***************************************************************************)

\* The number of places at which the piece token stands in text.
CountToken(text, token) ==
  Cardinality({i \in 1..Len(text) : text[i] = token})

RECURSIVE JoinedBlocks(_, _)
\* The blocks of the first n steps of s, in list order, with the delimiter
\* between every two of them.
JoinedBlocks(s, n) ==
  IF n = 0
    THEN <<>>
    ELSE (IF n > 1
            THEN JoinedBlocks(s, n - 1) \o <<"\n\n------------------------------\n\n">>
            ELSE <<>>)
           \o <<"[">> \o s.cmds[n].command \o <<"]:\n">> \o s.steps[n].text

\* C24: for a list of n >= 1 commands the text a sequence returns is the
\* concatenation, in list order, of n blocks '[<command>]:' newline <text of
\* that step>, with the delimiter between every two consecutive blocks:
\* n blocks, n - 1 delimiters, none leading or trailing. The buffer kept
\* during the loop is that concatenation over the steps run so far.
C24_SequenceTextIsJoinedBlocks ==
  \A c \in Calls :
    LET s == call[c]
        n == Len(s.cmds)
        t == s.result.text
    IN s.mode = "seq" =>
         /\ s.combinedOutput = JoinedBlocks(s, Len(s.steps))
         /\ (s.pc = "done" /\ n >= 1) =>
              /\ t = JoinedBlocks(s, n)
              /\ CountToken(t, "]:\n") = n
              /\ CountToken(t, "[") = n
              /\ CountToken(t, "\n\n------------------------------\n\n") = n - 1
              /\ t[1] = "["
              /\ t[Len(t)] # "\n\n------------------------------\n\n"

\* go_fix has returned the three blocks of its three steps, two delimiters
\* between them.
C24_Witness ==
  \E c \in Calls :
    LET s == call[c]
    IN /\ s.tool = "go_fix"
       /\ s.pc = "done"
       /\ Len(s.cmds) = 3
       /\ CountToken(s.result.text, "\n\n------------------------------\n\n") = 2
       /\ CountToken(s.result.text, "]:\n") = 3

(***************************************************************************)
(* C25                                                                     *)
(***************************************************************************)

\* The label only an error block carries.
ErrorLabel == "] ERROR:\n"

\* The block of step i of s as it stands in text: the label that follows
\* the command of the block.
PlainBlockOf(s, i) ==
  <<"[">> \o s.cmds[i].command \o <<"]:\n">> \o s.steps[i].text

ErrorBlockOf(s, i) ==
  <<"[">> \o s.cmds[i].command \o <<ErrorLabel>>

\* C25 as stated: in a sequence, a step whose result has isError = true (or
\* for which the executor raised) gets an error-labeled block and sets the
\* failure flag; a step whose result has isError unset gets a plain block.
C25_Original ==
  \A c \in Calls :
    LET s == call[c]
    IN s.mode = "seq" =>
         \A i \in 1..Len(s.steps) :
           IF StepFailed(s.steps[i])
             THEN /\ s.hasError
                  /\ Contains(s.combinedOutput, ErrorBlockOf(s, i))
             ELSE Contains(s.combinedOutput, PlainBlockOf(s, i))

\* C25, amended: in a sequence, a step whose result has isError = true sets
\* the failure flag and gets the same plain labeled block as a successful
\* step, '[<command>]:' and the step's text, so that its block differs from
\* a success block by its text only; the error-labeled block is appended
\* only when the executor raises, which it does for no step, so that no
\* output of a sequence carries the error label.
C25_FlaggedStepPlainBlock ==
  \A c \in Calls :
    LET s == call[c]
    IN s.mode = "seq" =>
         /\ \A i \in 1..Len(s.steps) :
              /\ ~s.steps[i].raised
              /\ Contains(s.combinedOutput, PlainBlockOf(s, i))
              /\ s.steps[i].isError = "true" => s.hasError
              /\ s.steps[i].isError \in {"true", "unset"}
         /\ CountToken(s.combinedOutput, ErrorLabel) = 0
         /\ s.pc = "done" => CountToken(s.result.text, ErrorLabel) = 0

\* The first step of go_test with coverage failed in both attempts and its
\* block was appended, the second step not yet run.
C25_Witness ==
  \E c \in Calls :
    LET s == call[c]
    IN /\ s.tool = "go_test"
       /\ s.mode = "seq"
       /\ s.pc = "exec"
       /\ Len(s.steps) = 1
       /\ s.steps[1].isError = "true"
       /\ s.hasError
       /\ s.combinedOutput = PlainBlockOf(s, 1)

(***************************************************************************)
(* C28                                                                     *)
(***************************************************************************)

\* The position of the piece token in cmd, 0 when it is not there.
TokenPos(cmd, token) ==
  IF \E i \in 1..Len(cmd) : cmd[i] = token
    THEN CHOOSE i \in 1..Len(cmd) : cmd[i] = token
    ELSE 0

\* C28: whatever the parameters of go_analyze, the command is
\* 'golangci-lint run', then --config=<config> only if a config is given,
\* --fast only if fast, --fix only if fix, in that order, then always
\* --severity=<severity> and --out-format=colored-line-number, then the
\* path as the last piece; one command is handed to the executor per call.
C28_AnalyzeCommandLine ==
  \A c \in Calls :
    LET s   == call[c]
        a   == s.args
        cmd == s.cmds[1].command
        n   == Len(cmd)
        pConfig == TokenPos(cmd, " --config=")
        pFast   == TokenPos(cmd, " --fast")
        pFix    == TokenPos(cmd, " --fix")
        pSev    == TokenPos(cmd, " --severity=")
        pOut    == TokenPos(cmd, " --out-format=colored-line-number")
    IN (s.tool = "go_analyze" /\ Invoked(s) /\ AbsolutePolicy(s.wd)) =>
         /\ s.mode = "single"
         /\ Len(s.cmds) = 1
         /\ cmd[1] = "golangci-lint run"
         /\ (pConfig > 0) <=> (a.config # <<>>)
         /\ pConfig > 0 => pConfig = 2 /\ SubSeq(cmd, 3, 2 + Len(a.config)) = a.config
         /\ (pFast > 0) <=> a.fast
         /\ (pFix > 0) <=> a.fix
         /\ pFast > 0 => pFast > pConfig
         /\ pFix > 0 => pFix > pFast /\ pFix > pConfig
         /\ pSev > pFix /\ pSev > pFast /\ pSev > pConfig
         /\ cmd[pSev + 1] = a.severity
         /\ pOut = pSev + 2
         /\ SubSeq(cmd, pOut + 1, n) = <<" ">> \o a.path
         /\ n = 1 + (IF a.config # <<>> THEN 1 + Len(a.config) ELSE 0)
                  + (IF a.fast THEN 1 ELSE 0) + (IF a.fix THEN 1 ELSE 0)
                  + 3 + 1 + Len(a.path)
         /\ \A k \in 1..Len(s.attempts) :
              /\ s.attempts[k].step = 1
              /\ EndsWith(s.attempts[k].cmd, cmd)
         /\ Len(s.steps) <= 1

\* go_analyze ran its one command with a config file, --fast and --fix.
C28_Witness ==
  \E c \in Calls :
    LET s == call[c]
    IN /\ s.tool = "go_analyze"
       /\ s.pc = "done"
       /\ s.attempts # <<>>
       /\ s.cmds[1].command =
            <<"golangci-lint run", " --config=", "lint.yml", " --fast", " --fix",
              " --severity=", "info", " --out-format=colored-line-number",
              " ", "./...">>

(***************************************************************************)
(* C29                                                                     *)
(***************************************************************************)

\* C29: when the synchronous attempt failed, for whatever reason, and the
\* asynchronous run of the same command then exited zero, the invocation
\* returns a success: isError is unset and the text is taken from the
\* second run alone (its stdout, else its stderr, else the success message),
\* whatever the first attempt printed or raised.
C29_FallbackSuccessIsPlainSuccess ==
  \A c \in Calls :
    LET s == call[c]
        n == Len(s.attempts)
    IN (Settled(s) /\ ~Succeeds(s.syncOut) /\ FallbackRan(s) /\ Succeeds(s.asyncOut)) =>
         /\ LastStep(s) =
              [raised  |-> FALSE,
               text    |-> IF s.asyncOut.stdout # <<>> THEN s.asyncOut.stdout
                           ELSE IF s.asyncOut.stderr # <<>> THEN s.asyncOut.stderr
                           ELSE LastSpec(s).successMessage,
               isError |-> "unset"]
         /\ n >= 2
         /\ s.attempts[n].kind = "async"
         /\ s.attempts[n - 1].kind = "sync"
         /\ s.attempts[n].cmd = s.attempts[n - 1].cmd
         /\ s.mode = "single" => s.result = LastStep(s)

\* go_vet: the synchronous run exited non-zero having printed OUT and ERR,
\* the second run exited zero in silence, and the answer is the success
\* message.
C29_Witness ==
  \E c \in Calls :
    LET s == call[c]
    IN /\ s.tool = "go_vet"
       /\ s.pc = "done"
       /\ s.syncOut.type = "exit1"
       /\ s.syncOut.stdout = <<"OUT">> /\ s.syncOut.stderr = <<"ERR">>
       /\ s.asyncOut = [type |-> "exit0", stdout |-> <<>>, stderr |-> <<>>, str |-> <<>>]
       /\ s.result = [raised |-> FALSE, text |-> <<"No issues found by go vet">>,
                      isError |-> "unset"]

(***************************************************************************)
(* C30                                                                     *)
(***************************************************************************)

Logged(log, entry) == \E i \in 1..Len(log) : log[i] = entry

\* C23: if a step of the bootstrap throws (the constructor, a registration,
\* the transport or the connection), main logs 'Failed to start server:'
\* with the error and calls process.exit(1), and the success message is
\* never logged; when nothing throws, the tools are registered once, the
\* transport is connected once and the success message is logged only after
\* connect resolved.
C23_BootstrapFailureExits ==
  /\ boot.error # NoError =>
       /\ boot.pc \in {"catch", "exit", "exited"}
       /\ ~Logged(boot.log, StartedMessage)
       /\ boot.pc \in {"exit", "exited"} =>
            boot.log[Len(boot.log)] = <<FailedMessage, boot.error>>
       /\ boot.pc = "exited" => boot.exitCode = <<1>>
  /\ boot.error = NoError =>
       /\ boot.exitCode = <<>>
       /\ boot.pc \notin {"catch", "exit", "exited"}
       /\ \A i \in 1..Len(boot.log) : boot.log[i] \in {StartingMessage, StartedMessage}
  /\ boot.tools <= 1 /\ boot.connects <= 1
  /\ Logged(boot.log, StartedMessage) =>
       /\ boot.pc = "ready"
       /\ boot.tools = 1
       /\ boot.connects = 1
       /\ boot.log = <<StartingMessage, StartedMessage>>
  /\ boot.pc = "ready" => Logged(boot.log, StartedMessage)
  /\ boot.pc \in {"awaitConnect", "connect", "transport"} =>
       ~Logged(boot.log, StartedMessage)

\* The promise of connect rejected: the failure was logged with the error
\* and the process exited with status 1, the tools registered once.
C23_Witness ==
  /\ boot.pc = "exited"
  /\ boot.error = "connect failed"
  /\ boot.connects = 1
  /\ boot.tools = 1
  /\ boot.exitCode = <<1>>
  /\ boot.log = <<StartingMessage, <<FailedMessage, "connect failed">>>>

(***************************************************************************)
(* C21                                                                     *)
(***************************************************************************)

\* The last process the call ran exited non-zero or could not be run.
ExecutionFailed(s) ==
  /\ s.pc \in {"done", "threw"}
  /\ s.attempts # <<>>
  /\ s.asyncOut.type \notin {"none", "exit0"}

\* C21: whatever the registered tool, go_vet and go_find_dead_code included,
\* a tool execution error (the process exits non-zero or cannot be started)
\* is answered with a text and isError = true and is never thrown out of
\* the handler.
C21_ToolErrorsFlagged ==
  \A c \in Calls :
    LET s == call[c]
    IN ExecutionFailed(s) =>
         /\ s.pc = "done"
         /\ ~s.result.raised
         /\ s.result.text # <<>>
         /\ s.result.isError = "true"

(***************************************************************************)
(* C22                                                                     *)
(***************************************************************************)

\* What the record of call s holds follows from its own arguments and from
\* what its own processes met: its commands are those of its tool and
\* arguments, every attempt runs one of them, its buffer is the blocks of
\* its own steps and its flag their failures, the latest step's result is
\* what the executor makes of the outcomes of the call's own two attempts,
\* and its result is built from its own steps alone.
OwnStateOnly(s) ==
  /\ (s.pc \in {"exec", "sync", "await"}) => s.cmds = Plan(s.tool, s.args).cmds
  /\ \A k \in 1..Len(s.attempts) :
       EndsWith(s.attempts[k].cmd, s.cmds[s.attempts[k].step].command)
  /\ s.mode = "seq" =>
       /\ s.combinedOutput = JoinedBlocks(s, Len(s.steps))
       /\ s.hasError <=> \E i \in 1..Len(s.steps) : s.steps[i].isError = "true"
  /\ Settled(s) =>
       LET msg == LastSpec(s).successMessage
           cmd == s.attempts[Len(s.attempts)].cmd
       IN LastStep(s) =
            IF Succeeds(s.syncOut)
              THEN [raised |-> FALSE, text |-> Or(s.syncOut.stdout, msg),
                    isError |-> "unset"]
              ELSE IF Succeeds(s.asyncOut)
                     THEN [raised |-> FALSE,
                           text |-> Or(s.asyncOut.stdout, Or(s.asyncOut.stderr, msg)),
                           isError |-> "unset"]
                     ELSE ExecuteCatch(ThrownError(s.asyncOut, cmd))
  /\ (s.pc = "done" /\ s.steps # <<>>) =>
       s.result = IF s.mode = "single"
                    THEN s.steps[1]
                    ELSE [raised  |-> FALSE,
                          text    |-> JoinedBlocks(s, Len(s.cmds)),
                          isError |-> IF \E i \in 1..Len(s.steps) :
                                           s.steps[i].isError = "true"
                                        THEN "true" ELSE "false"]

\* A step writes the record of one call and of no other.
OneCallWritten ==
  \A c, d \in Calls :
    (c # d /\ call'[c] # call[c]) => call'[d] = call[d]

\* C22: calls in flight together share no state: in every interleaving each
\* call's result, output buffer and failure flag follow from its own
\* arguments and from the outcomes of its own processes, and every step
\* writes the record of one call only.
C22_NoSharedState ==
  /\ [](\A c \in Calls : OwnStateOnly(call[c]))
  /\ [][OneCallWritten]_vars

\* Two sequences are in flight together, each with the block of its first
\* step in its buffer, one failed and one not, the second suspended on its
\* fallback.
C22_Witness ==
  /\ call[1].mode = "seq" /\ call[2].mode = "seq"
  /\ call[1].pc = "exec" /\ call[2].pc = "await"
  /\ Len(call[1].steps) = 1 /\ Len(call[2].steps) = 1
  /\ call[1].hasError /\ ~call[2].hasError
  /\ call[1].combinedOutput # call[2].combinedOutput

(***************************************************************************)
(* C26                                                                     *)
(***************************************************************************)

\* The call waits for a process of its own to exit.
WaitingOnProcess(s) == s.pc \in {"sync", "await"}

\* The steps call d takes when it is handed the thread: its handler is
\* entered, it enters executeGoCommand, or the promise it is suspended on
\* settles.
CallStep(d) ==
  \/ ConcCallTool(d)
  \/ ExecSyncStarts(d)
  \/ ConcExecAsyncResolves(d)
  \/ ConcExecAsyncRejects(d)

\* C26: while a call waits for its process to exit, in the synchronous
\* attempt as in the asynchronous fallback, it yields: every other call
\* that has a step to take can take it during that wait.
C26_WaitingCallYields ==
  \A c, d \in Calls :
    (c # d /\ WaitingOnProcess(call[c])
           /\ call[d].pc \in {"idle", "exec", "await"}) =>
      ENABLED CallStep(d)

(***************************************************************************)
(* C27                                                                     *)
(***************************************************************************)

\* The handler was entered and has not returned.
Pending(s) == s.pc \in {"exec", "sync", "await"}

\* A process started by the call has not exited.
OwnProcessAlive(s) == \E k \in 1..Len(s.attempts) : s.attempts[k].alive

\* C27: if every process that is started eventually exits, every call that
\* was entered eventually returns a result; and a call stays pending for
\* ever only while a process of its own has not exited.
C27_CallsReturnUnlessOwnProcessHangs ==
  /\ (\A c \in Calls : []<>(~OwnProcessAlive(call[c])))
       => (\A c \in Calls : Pending(call[c]) ~> (call[c].pc = "done"))
  /\ \A c \in Calls :
       <>[]Pending(call[c]) => <>[]OwnProcessAlive(call[c])

\* When every process exits, as FairSpecConc assumes, every call that was
\* entered returns.
CallsReturnWhenProcessesExit ==
  \A c \in Calls : Pending(call[c]) ~> (call[c].pc = "done")

====
